---- MODULE Spec2Model ----
\* books_pipeline_dag (src/dags/dag.py): a three-task Airflow chain
\*   fetch_book_data >> transform_books_data >> save_books_data
\* that scrapes a paginated catalogue, cleans the records and appends them to
\* the Postgres table "books".  Strings are sequences of one-character strings
\* so that the cleaning steps are computed, not assumed.  A price is held in
\* hundredths.  The currency sign of the site is written "$".
EXTENDS Integers, Sequences, FiniteSets

\* ---------------------------------------------------------------- bounds
MaxCatalog == 3        \* longest catalogue the source site holds
MaxPageSize == 2       \* most item containers on one listing page
MaxBooks == 3          \* largest num_books handed to get_books_data
MaxRuns == 2           \* manual triggers of the DAG

VARIABLES
    site,         \* the source: its listing pages and how it answers past them
    num_books,    \* op_kwargs["num_books"] of fetch_book_data
    phase,        \* state of the DAG run
    error,        \* the exception that failed the run, "none" otherwise
    runCount,     \* DAG runs triggered so far
    books, page,  \* locals of get_books_data
    loopDone,     \* get_books_data left its while loop through a break
    requests,     \* page numbers passed to requests.get in this run, in order
    xcom,         \* XCom of this run: key -> value, None when never pushed
    pushes,       \* xcom_push calls of this run, per key
    pulls,        \* xcom_pull calls of this run, per key
    pulledUnset,  \* keys pulled in this run before any push
    pc,           \* position of save_to_postgres
    records,      \* local of save_to_postgres
    idx,          \* index of the record the insert loop is at
    conn,         \* the psycopg2 connection of this run
    connects,     \* psycopg2.connect calls of this run
    stmts,        \* statements handed to cur.execute / conn.commit in this run
    ret,          \* return value of save_to_postgres once pc = "returned"
    tableExists,  \* committed: the table books exists
    table,        \* committed rows of books
    seq,          \* next value of the SERIAL sequence behind books.id
    txnCreated,   \* the open transaction created the table
    pending,      \* rows inserted by the open transaction, not committed
    tableAtStart, \* committed rows when this run was triggered
    doneRuns      \* runs that reached Done

vars == <<site, num_books, phase, error, runCount, books, page, loopDone,
          requests, xcom, pushes, pulls, pulledUnset, pc, records, idx, conn,
          connects, stmts, ret, tableExists, table, seq, txnCreated, pending,
          tableAtStart, doneRuns>>

collectorVars == <<books, page, loopDone, requests>>
busVars == <<xcom, pushes, pulls, pulledUnset>>
persisterVars == <<pc, records, idx, conn, connects, stmts, ret>>
storeVars == <<tableExists, table, seq, txnCreated, pending>>
runVars == <<site, num_books, runCount, tableAtStart>>

\* ------------------------------------------------------------- the source
\* Three item containers as the site serves them (title attribute, text of
\* .price_color, second class token of the rating paragraph).
ItemA == [title |-> <<" ", "A", " ">>, price |-> <<"$", "1", ".", "5">>, rating |-> "Three"]
ItemB == [title |-> <<"B">>, price |-> <<>>, rating |-> "Five"]
ItemC == [title |-> <<"C", " ">>, price |-> <<"$", "2">>, rating |-> "Six"]
RawItems == {ItemA, ItemB, ItemC}

RECURSIVE SeqsUpTo(_, _)
SeqsUpTo(S, n) ==
    IF n = 0 THEN {<<>>}
    ELSE LET shorter == SeqsUpTo(S, n - 1)
         IN  shorter \cup {Append(s, x) : s \in {t \in shorter : Len(t) = n - 1}, x \in S}

Min(a, b) == IF a <= b THEN a ELSE b

\* The catalogue cut into listing pages of `size` containers.
RECURSIVE Paginate(_, _)
Paginate(catalog, size) ==
    IF catalog = <<>> THEN <<>>
    ELSE LET k == Min(size, Len(catalog))
         IN  <<SubSeq(catalog, 1, k)>> \o Paginate(SubSeq(catalog, k + 1, Len(catalog)), size)

RECURSIVE Flatten(_)
Flatten(pages) == IF pages = <<>> THEN <<>> ELSE Head(pages) \o Flatten(Tail(pages))

\* How the site answers once its listing pages are used up: a non-200 status,
\* a 200 page without item containers, or no answer (requests.get raises).
StopKinds == {"non200", "empty", "raise"}

Sites ==
    {[pages |-> Paginate(c, s), stop |-> k] :
        c \in SeqsUpTo(RawItems, MaxCatalog), s \in 1..MaxPageSize, k \in StopKinds}

\* requests.get(base_url.format(p)) followed by soup.select(".product_pod").
Response(p) ==
    IF p <= Len(site.pages)
    THEN [raised |-> FALSE, status_code |-> 200, book_containers |-> site.pages[p]]
    ELSE CASE site.stop = "non200" -> [raised |-> FALSE, status_code |-> 404, book_containers |-> <<>>]
           [] site.stop = "empty"  -> [raised |-> FALSE, status_code |-> 200, book_containers |-> <<>>]
           [] OTHER                -> [raised |-> TRUE, status_code |-> 0, book_containers |-> <<>>]

\* A Python value that may be None (an XCom never pushed, a function that
\* returns nothing) or NaN (a label rating_map lacks): <<>> when there is no
\* value, <<v>> when the value is v.
None == <<>>
NaN == <<>>
Some(v) == <<v>>
NoKeys == {}
Keys == {"raw_book_data", "cleaned_book_data"}

\* Falsy as `records is None`.
IsNone(v) == v = None

\* `not records` of Python: None and the empty list are both falsy.
Falsy(v) == v = None \/ v[1] = <<>>

\* The DAG passes num_books = 50; get_books_data takes any integer, and every
\* value from -1 up to MaxBooks is tried.  The database starts without the table.
Init ==
    /\ site \in Sites
    /\ num_books \in -1..MaxBooks
    /\ phase = "Idle"
    /\ error = "none"
    /\ runCount = 0
    /\ books = <<>> /\ page = 1 /\ loopDone = FALSE /\ requests = <<>>
    /\ xcom = [k \in Keys |-> None]
    /\ pushes = [k \in Keys |-> 0]
    /\ pulls = [k \in Keys |-> 0]
    /\ pulledUnset = NoKeys
    /\ pc = "pull" /\ records = None /\ idx = 1
    /\ conn = "none" /\ connects = 0 /\ stmts = 0 /\ ret = None
    /\ tableExists = FALSE /\ table = {} /\ seq = 1
    /\ txnCreated = FALSE /\ pending = <<>>
    /\ tableAtStart = {}
    /\ doneRuns = 0

\* ------------------------------------------------------- the orchestrator
\* A manual trigger (schedule=None) starts a DAG run with its own XCom and its
\* own task processes.  The session of a Persister that failed earlier is gone
\* by then, and with it its uncommitted transaction: a table that transaction
\* created disappears together with its sequence.
Trigger ==
    /\ phase \in {"Idle", "Done", "Failed"}
    /\ runCount < MaxRuns
    /\ runCount' = runCount + 1
    /\ phase' = "Collecting"
    /\ error' = "none"
    /\ books' = <<>> /\ page' = 1 /\ loopDone' = FALSE /\ requests' = <<>>
    /\ xcom' = [k \in Keys |-> None]
    /\ pushes' = [k \in Keys |-> 0]
    /\ pulls' = [k \in Keys |-> 0]
    /\ pulledUnset' = NoKeys
    /\ pc' = "pull" /\ records' = None /\ idx' = 1
    /\ conn' = "none" /\ connects' = 0 /\ stmts' = 0 /\ ret' = None
    /\ pending' = <<>>
    /\ txnCreated' = FALSE
    /\ seq' = IF txnCreated THEN 1 ELSE seq
    /\ tableAtStart' = table
    /\ UNCHANGED <<site, num_books, tableExists, table, doneRuns>>

\* Raise under retries = 1: the failed task sends the run round again.
RaiseAndRetry(exc) ==
    /\ phase' = "Collecting"
    /\ error' = exc

\* A task raised: with retries = 0 the task is failed, the tasks after it are
\* not run and the DAG run is failed.
Raise(exc) ==
    /\ phase' = "Failed"
    /\ error' = exc

\* ------------------------------------------------------------- Collector
\* The for loop over one page's containers: append, then stop as soon as the
\* accumulator holds num_books items.
\* Extract without the `if len(books) >= num_books: break`.
ExtractNoBreak(book_containers, acc, n) == acc \o book_containers

RECURSIVE Extract(_, _, _)
Extract(book_containers, acc, n) ==
    IF book_containers = <<>> THEN acc
    ELSE LET acc2 == Append(acc, Head(book_containers))
         IN  IF Len(acc2) >= n THEN acc2 ELSE Extract(Tail(book_containers), acc2, n)

\* NextPage with the counter advanced twice, and not at all.
SkipPage(p) == p + 2
SamePage(p) == p

NextPage(p) == p + 1

\* One iteration of `while len(books) < num_books`.
FetchPage ==
    /\ phase = "Collecting"
    /\ ~loopDone
    /\ Len(books) < num_books
    /\ requests' = Append(requests, page)
    /\ LET response == Response(page)
       IN  IF response.raised
           THEN /\ Raise("RequestException")
                /\ UNCHANGED <<books, page, loopDone>>
           ELSE IF response.status_code # 200 \/ response.book_containers = <<>>
           THEN /\ loopDone' = TRUE
                /\ UNCHANGED <<phase, error, books, page>>
           ELSE /\ books' = Extract(response.book_containers, books, num_books)
                /\ page' = NextPage(page)
                /\ UNCHANGED <<phase, error, loopDone>>
    /\ UNCHANGED <<runVars, busVars, persisterVars, storeVars, doneRuns>>

\* After the loop: DataFrame(books).to_dict("records") is pushed.
PushRaw ==
    /\ phase = "Collecting"
    /\ loopDone \/ Len(books) >= num_books
    /\ xcom' = [xcom EXCEPT !["raw_book_data"] = Some(books)]
    /\ pushes' = [pushes EXCEPT !["raw_book_data"] = @ + 1]
    /\ UNCHANGED <<pulls, pulledUnset>>
    /\ phase' = "Normalizing"
    /\ UNCHANGED <<runVars, error, collectorVars, persisterVars, storeVars, doneRuns>>

\* ------------------------------------------------------------ Normalizer
Digits == {"0", "1", "2", "3", "4", "5", "6", "7", "8", "9"}
Whitespace == {" "}

DigitVal(c) ==
    CASE c = "0" -> 0 [] c = "1" -> 1 [] c = "2" -> 2 [] c = "3" -> 3 [] c = "4" -> 4
      [] c = "5" -> 5 [] c = "6" -> 6 [] c = "7" -> 7 [] c = "8" -> 8 [] c = "9" -> 9

IsDigitOrDot(c) == c \in Digits \cup {"."}

\* .str.replace(r"[^\d.]", "", regex=True)
StripNonNumeric(s) == SelectSeq(s, IsDigitOrDot)

\* .replace("", "0"): a value that is exactly the empty string becomes "0".
EmptyToZero(s) == IF s = <<>> THEN <<"0">> ELSE s

RECURSIVE DigitsVal(_)
DigitsVal(ds) ==
    IF ds = <<>> THEN 0 ELSE 10 * DigitsVal(SubSeq(ds, 1, Len(ds) - 1)) + DigitVal(ds[Len(ds)])

RECURSIVE DotAt(_, _)
DotAt(s, i) == IF i > Len(s) THEN 0 ELSE IF s[i] = "." THEN i ELSE DotAt(s, i + 1)

\* .astype(float) on digits with at most one dot and at most two decimals,
\* in hundredths.
ToFloat(s) ==
    LET d == DotAt(s, 1)
        whole == IF d = 0 THEN s ELSE SubSeq(s, 1, d - 1)
        frac == IF d = 0 THEN <<>> ELSE SubSeq(s, d + 1, Len(s))
        frac2 == SubSeq(frac \o <<"0", "0">>, 1, 2)
    IN  100 * DigitsVal(whole) + DigitsVal(frac2)

CleanPrice(price) == ToFloat(EmptyToZero(StripNonNumeric(price)))

\* df["rating"].map(rating_map): a label the map lacks becomes NaN.
rating_map(label) ==
    CASE label = "One" -> Some(1) [] label = "Two" -> Some(2) [] label = "Three" -> Some(3)
      [] label = "Four" -> Some(4) [] label = "Five" -> Some(5) [] OTHER -> NaN

\* str.strip()
RECURSIVE LStrip(_)
LStrip(s) == IF s # <<>> /\ Head(s) \in Whitespace THEN LStrip(Tail(s)) ELSE s

RECURSIVE RStrip(_)
RStrip(s) ==
    IF s # <<>> /\ s[Len(s)] \in Whitespace THEN RStrip(SubSeq(s, 1, Len(s) - 1)) ELSE s

Strip(s) == RStrip(LStrip(s))

Clean(r) == [title |-> Strip(r.title), price |-> CleanPrice(r.price), rating |-> rating_map(r.rating)]

CleanAll(rs) == [i \in 1..Len(rs) |-> Clean(rs[i])]

\* Emits without the `if not records: return` guard.
EmitsAlways(pulled) == TRUE

\* What the Normalizer pushes for the pulled value: nothing when it is falsy.
Emits(pulled) == ~Falsy(pulled)

transform_books_data ==
    /\ phase = "Normalizing"
    /\ LET pulled == xcom["raw_book_data"]
       IN  /\ pulls' = [pulls EXCEPT !["raw_book_data"] = @ + 1]
           /\ pulledUnset' = IF pushes["raw_book_data"] = 0
                             THEN pulledUnset \cup {"raw_book_data"} ELSE pulledUnset
           /\ IF Emits(pulled)
              THEN /\ xcom' = [xcom EXCEPT !["cleaned_book_data"] = Some(CleanAll(pulled[1]))]
                   /\ pushes' = [pushes EXCEPT !["cleaned_book_data"] = @ + 1]
              ELSE UNCHANGED <<xcom, pushes>>
    /\ phase' = "Persisting"
    /\ UNCHANGED <<runVars, error, collectorVars, persisterVars, storeVars, doneRuns>>

\* ------------------------------------------------------------- Persister
\* The store refuses a row it cannot hold: NaN has no INT value.  A rating
\* that is a number is stored as that integer.
Storable(r) == r.rating # NaN

NewRow(r, id) == [id |-> id, title |-> r.title, price |-> r.price, rating |-> r.rating[1]]

\* NextVal of a sequence that does not advance.
StuckVal(s) == s

\* nextval of the SERIAL sequence; it is not undone by a rollback.
NextVal(s) == s + 1

Range(f) == {f[i] : i \in DOMAIN f}

\* CommitRows as an upsert keyed on (title, price, rating).
SameBook(a, b) == a.title = b.title /\ a.price = b.price /\ a.rating = b.rating
CommitUpsert(tbl, pend) ==
    tbl \cup {r \in Range(pend) : \A t \in tbl : ~SameBook(r, t)}

\* conn.commit(): the rows of the transaction join the committed ones.
CommitRows(tbl, pend) == tbl \cup Range(pend)

\* xcom_pull and the `if not records: return` guard.
PersistPull ==
    /\ phase = "Persisting"
    /\ pc = "pull"
    /\ LET pulled == xcom["cleaned_book_data"]
       IN  /\ pulls' = [pulls EXCEPT !["cleaned_book_data"] = @ + 1]
           /\ pulledUnset' = IF pushes["cleaned_book_data"] = 0
                             THEN pulledUnset \cup {"cleaned_book_data"} ELSE pulledUnset
           /\ IF Falsy(pulled)
              THEN /\ pc' = "returned"
                   /\ ret' = None
                   /\ phase' = "Done"
                   /\ doneRuns' = doneRuns + 1
                   /\ UNCHANGED records
              ELSE /\ records' = pulled[1]
                   /\ pc' = "connect"
                   /\ UNCHANGED <<ret, phase, doneRuns>>
    /\ UNCHANGED <<runVars, error, collectorVars, xcom, pushes, idx, conn, connects,
                   stmts, storeVars>>

\* psycopg2.connect(...) and conn.cursor()
Connect ==
    /\ phase = "Persisting"
    /\ pc = "connect"
    /\ connects' = connects + 1
    /\ \E ok \in BOOLEAN :
          IF ok
          THEN /\ conn' = "open"
               /\ pc' = "create"
               /\ UNCHANGED <<phase, error>>
          ELSE /\ Raise("OperationalError")
               /\ UNCHANGED <<conn, pc>>
    /\ UNCHANGED <<runVars, collectorVars, busVars, records, idx, stmts, ret,
                   storeVars, doneRuns>>

\* CREATE TABLE IF NOT EXISTS books (...)
CreateTable ==
    /\ phase = "Persisting"
    /\ pc = "create"
    /\ stmts' = stmts + 1
    /\ \E ok \in BOOLEAN :
          IF ok
          THEN /\ txnCreated' = ~tableExists
               /\ pc' = IF records = <<>> THEN "commit" ELSE "insert"
               /\ UNCHANGED <<phase, error>>
          ELSE /\ Raise("DatabaseError")
               /\ UNCHANGED <<txnCreated, pc>>
    /\ UNCHANGED <<runVars, collectorVars, busVars, records, idx, conn, connects, ret,
                   tableExists, table, seq, pending, doneRuns>>

\* Insert on a connection in autocommit mode: each row is committed at once.
InsertAutocommit ==
    /\ phase = "Persisting"
    /\ pc = "insert"
    /\ stmts' = stmts + 1
    /\ \E ok \in BOOLEAN :
          IF ok /\ Storable(records[idx])
          THEN /\ table' = table \cup {NewRow(records[idx], seq)}
               /\ seq' = NextVal(seq)
               /\ idx' = idx + 1
               /\ pc' = IF idx = Len(records) THEN "commit" ELSE "insert"
               /\ UNCHANGED <<phase, error>>
          ELSE /\ Raise("DatabaseError")
               /\ UNCHANGED <<table, seq, idx, pc>>
    /\ UNCHANGED <<runVars, collectorVars, busVars, records, conn, connects, ret,
                   tableExists, pending, txnCreated, doneRuns>>

\* One iteration of `for r in records`: INSERT INTO books (title, price, rating).
Insert ==
    /\ phase = "Persisting"
    /\ pc = "insert"
    /\ stmts' = stmts + 1
    /\ \E ok \in BOOLEAN :
          IF ok /\ Storable(records[idx])
          THEN /\ pending' = Append(pending, NewRow(records[idx], seq))
               /\ seq' = NextVal(seq)
               /\ idx' = idx + 1
               /\ pc' = IF idx = Len(records) THEN "commit" ELSE "insert"
               /\ UNCHANGED <<phase, error>>
          ELSE /\ Raise("DatabaseError")
               /\ UNCHANGED <<pending, seq, idx, pc>>
    /\ UNCHANGED <<runVars, collectorVars, busVars, records, conn, connects, ret,
                   tableExists, table, txnCreated, doneRuns>>

\* conn.commit()
Commit ==
    /\ phase = "Persisting"
    /\ pc = "commit"
    /\ stmts' = stmts + 1
    /\ \E ok \in BOOLEAN :
          IF ok
          THEN /\ table' = CommitRows(table, pending)
               /\ tableExists' = TRUE
               /\ txnCreated' = FALSE
               /\ pending' = <<>>
               /\ pc' = "close"
               /\ UNCHANGED <<phase, error>>
          ELSE /\ Raise("DatabaseError")
               /\ UNCHANGED <<table, tableExists, txnCreated, pending, pc>>
    /\ UNCHANGED <<runVars, collectorVars, busVars, records, idx, conn, connects, ret,
                   seq, doneRuns>>

\* cur.close(); conn.close(); the function returns nothing.
Close ==
    /\ phase = "Persisting"
    /\ pc = "close"
    /\ conn' = "closed"
    /\ pc' = "returned"
    /\ ret' = None
    /\ phase' = "Done"
    /\ doneRuns' = doneRuns + 1
    /\ UNCHANGED <<runVars, error, collectorVars, busVars, records, idx, connects,
                   stmts, storeVars>>

\* ------------------------------------------------------------ the system
Task ==
    \/ FetchPage
    \/ PushRaw
    \/ transform_books_data
    \/ PersistPull
    \/ Connect
    \/ CreateTable
    \/ Insert
    \/ Commit
    \/ Close

Next == Trigger \/ Task

Spec == Init /\ [][Next]_vars

\* A task that has been started runs on: every call in it returns or raises.
\* Triggering a run is up to the user.
FairSpec == Spec /\ WF_vars(Task)

\* ------------------------------------------------------------ properties
Catalog == Flatten(site.pages)
Raw == xcom["raw_book_data"]
Cleaned == xcom["cleaned_book_data"]
Collected == phase \in {"Normalizing", "Persisting", "Done"} \/ (phase = "Failed" /\ error # "RequestException")
RunEnded == phase \in {"Done", "Failed"}
NewRows == table \ tableAtStart

\* An XCom value that is absent or the empty list.
NoItems(v) == v = None \/ v = Some(<<>>)

\* SELECT * FROM books ORDER BY id
RECURSIVE ReadBack(_)
ReadBack(rows) ==
    IF rows = {} THEN <<>>
    ELSE LET first == CHOOSE r \in rows : \A q \in rows : r.id <= q.id
         IN  <<first>> \o ReadBack(rows \ {first})

Book(r) == <<r.title, r.price, r.rating>>

\* C1: for a target count N >= 1 and a source with at least N items available,
\* the Collector does not fail, never holds more than N items, and the
\* collection it pushes under "raw_book_data" has exactly N items.
C1_ExactlyN ==
    (num_books >= 1 /\ Len(Catalog) >= num_books) =>
        /\ error # "RequestException"
        /\ Len(books) <= num_books
        /\ Collected => (Raw # None /\ Len(Raw[1]) = num_books)

\* C1 witness: the target was reached on the second page of a source that
\* holds more than N items.
C1_Witness ==
    /\ phase = "Normalizing"
    /\ num_books >= 1
    /\ Len(Catalog) > num_books
    /\ requests = <<1, 2>>
    /\ Raw # None /\ Len(Raw[1]) = num_books

\* C2: when the source holds fewer than N items and its catalogue ends (with a
\* non-200 answer or a page without containers), the Collector does not fail,
\* leaves the Collecting state, and pushes exactly the items of the catalogue
\* in page order.
C2_Pre == Len(Catalog) < num_books /\ site.stop # "raise"
C2_Inv ==
    C2_Pre => /\ error # "RequestException"
              /\ Collected => Raw = Some(Catalog)
\* C2, as the invariant above and the Collector leaving Collecting.
C2_AllAvailable ==
    /\ []C2_Inv
    /\ (phase = "Collecting" /\ C2_Pre) ~> (phase = "Normalizing")

C2_Witness ==
    /\ phase = "Normalizing"
    /\ C2_Pre
    /\ site.stop = "empty"
    /\ Len(site.pages) >= 2
    /\ Raw = Some(Catalog)
    /\ \E i, j \in 1..Len(Catalog) : Catalog[i] # Catalog[j]

\* C10: pages are requested in the order 1, 2, 3, ... and each once; only the
\* last request of a run can have met a non-200 answer or a page without
\* containers, after which the Collector has not failed and pushes exactly
\* the items of the pages before it; for num_books <= 0 nothing is requested
\* and the empty collection is pushed.
Stops(p) == ~Response(p).raised /\ (Response(p).status_code # 200 \/ Response(p).book_containers = <<>>)
\* C10, over the log of requested page numbers.
C10_Requests ==
    /\ \A i \in 1..Len(requests) : requests[i] = i
    /\ \A i \in 1..(Len(requests) - 1) : ~Stops(requests[i]) /\ ~Response(requests[i]).raised
    /\ loopDone <=> (requests # <<>> /\ Stops(requests[Len(requests)]))
    /\ loopDone => /\ error # "RequestException"
                   /\ books = Flatten(SubSeq(site.pages, 1, Len(requests) - 1))
                   /\ Collected => Raw = Some(books)
    /\ num_books <= 0 => /\ requests = <<>>
                         /\ Collected => Raw = Some(<<>>)

\* C10 witness: the third request met a non-200 answer and the items of the
\* two pages before it were pushed.
C10_Witness ==
    /\ phase = "Normalizing"
    /\ loopDone
    /\ site.stop = "non200"
    /\ requests = <<1, 2, 3>>
    /\ Raw = Some(Catalog)

LinearSteps == {<<"Collecting", "Normalizing">>, <<"Normalizing", "Persisting">>,
                <<"Persisting", "Done">>, <<"Collecting", "Failed">>, <<"Persisting", "Failed">>}
C3_Step == (runCount' = runCount /\ phase' # phase) => <<phase, phase'>> \in LinearSteps
C3_Cause ==
    phase = "Failed" =>
        \/ error = "RequestException" /\ requests # <<>> /\ Response(requests[Len(requests)]).raised
        \/ error \in {"OperationalError", "DatabaseError"} /\ ~NoItems(Cleaned)
C4_ConnReleased == (RunEnded /\ conn # "none") => conn = "closed"

\* C5: a run that reaches Done has added exactly as many rows as the items it
\* collected, so after k such runs over the same source the table holds k * N
\* rows (2 * N after two); no step removes or changes a committed row; rows
\* with the same (title, price, rating) are all kept.
C5_Count ==
    phase = "Done" =>
        /\ Cardinality(table) = Cardinality(tableAtStart) + Len(Raw[1])
        /\ Cardinality(table) = doneRuns * Len(Raw[1])
C5_AppendOnly == table \subseteq table'
\* C5: the row counts in every state and append-only in every step.
C5_Appends == []C5_Count /\ [][C5_AppendOnly]_vars

\* C5 witness: the second run over the same source is done, the table holds
\* 2 * N rows and two of them carry the same book.
C5_Witness ==
    /\ phase = "Done"
    /\ doneRuns = 2
    /\ Len(Raw[1]) >= 2
    /\ Cardinality(table) = 2 * Len(Raw[1])
    /\ \E a, b \in table : a.id # b.id /\ Book(a) = Book(b)

\* C6: when the Persister has returned after persisting N items, the rows
\* read back in id order and not in the table before are N rows whose
\* (title, price, rating) are those of the items in the same order, and no two
\* rows of the table share an id.
C6_RoundTrip ==
    (phase = "Done" /\ ~NoItems(Cleaned)) =>
        LET items == Cleaned[1]
            back == ReadBack(NewRows)
        IN  /\ Len(back) = Len(items)
            /\ \A i \in 1..Len(back) :
                  Book(back[i]) = <<items[i].title, items[i].price, items[i].rating[1]>>
            /\ \A a, b \in table : a.id = b.id => a = b
            /\ \A a \in tableAtStart, b \in NewRows : a.id < b.id

\* C6 witness: two different items were persisted into a table that already
\* held the rows of an earlier run.
C6_Witness ==
    /\ phase = "Done"
    /\ ~NoItems(Cleaned)
    /\ Len(Cleaned[1]) >= 2
    /\ Cleaned[1][1] # Cleaned[1][2]
    /\ tableAtStart # {}
    /\ Cardinality(table) = 2 * Len(Cleaned[1])

\* C7 as claimed: in a complete run each key is written once and read once,
\* and no key is read before it is written.
C7_OnceEach ==
    phase = "Done" =>
        \A k \in Keys : pushes[k] = 1 /\ pulls[k] = 1 /\ k \notin pulledUnset

\* C7: each key is never written or read more than once; in a complete run
\* each key is read once, "raw_book_data" is written once before it is read,
\* and "cleaned_book_data" is written once before it is read when items were
\* collected but is read without ever being written when none were.
C7_BusUse ==
    /\ \A k \in Keys : pushes[k] <= 1 /\ pulls[k] <= 1
    /\ phase = "Done" =>
          /\ \A k \in Keys : pulls[k] = 1
          /\ pushes["raw_book_data"] = 1
          /\ IF Raw = Some(<<>>)
             THEN pushes["cleaned_book_data"] = 0 /\ pulledUnset = {"cleaned_book_data"}
             ELSE pushes["cleaned_book_data"] = 1 /\ pulledUnset = {}

\* C7 witness: a complete run in which nothing was collected.
C7_Witness ==
    /\ phase = "Done"
    /\ Raw = Some(<<>>)
    /\ "cleaned_book_data" \in pulledUnset

C9_NoneOrAll ==
    /\ NewRows = {} \/ (pc \in {"close", "returned"} /\ Cardinality(NewRows) = Len(records))
    /\ phase = "Failed" => NewRows = {}
C9_Fatal ==
    (phase = "Failed" /\ runCount' = runCount) => UNCHANGED <<phase, stmts, connects, table, pending, idx>>
\* C9: none-or-all in every state and nothing done after the failure.
C9_Atomic == []C9_NoneOrAll /\ [][C9_Fatal]_vars

\* C9 witness: the second INSERT of a run failed after the first went through,
\* and the table holds what it held when the run began.
C9_Witness ==
    /\ phase = "Failed"
    /\ error = "DatabaseError"
    /\ pc = "insert" /\ idx = 2
    /\ pending # <<>>
    /\ tableAtStart # {}
    /\ table = tableAtStart
====
